---- MODULE Spec2Model ----
(***************************************************************************)
(* Model of the JoggingAssistant component of src/app/page.tsx.            *)
(*                                                                         *)
(* The component is a React function component.  Every handler (button     *)
(* click, geolocation callback, timer callback) runs to completion on the  *)
(* single UI thread, after which React re-renders and runs the effects     *)
(* whose dependencies changed; an action of this model is one handler      *)
(* together with that re-render (operator Commit).                         *)
(*                                                                         *)
(* Callbacks handed to the browser (watchPosition, getCurrentPosition,     *)
(* setInterval) keep the variables of the render that created them: a      *)
(* watch, a pending retry and an interval therefore carry the values they  *)
(* captured (fields state, startTime, lastActivity, positions).            *)
(*                                                                         *)
(* Date.now() is in milliseconds and advances in steps of ClockStep; an    *)
(* interval's callback runs before the clock passes the step it is due in. *)
(* The network monitor (the first effect) and the session share no state   *)
(* but the clock and the mounting of the component.  Spec is the session   *)
(* of a component that stays mounted, in a browser without connection      *)
(* information, where the monitor never raises the advisory; LifeSpec is   *)
(* Spec with the unmounting of the component; NetSpec is the monitor, for  *)
(* every connection, with the session left idle.  FnSpec applies the pure  *)
(* functions updateStats and calculateDistance to inputs drawn from        *)
(* bounded sets, and DrawSpec the bounding box of drawRoute.               *)
(*                                                                         *)
(* Numbers are fixed-point integers: durations in milliseconds (the code's  *)
(* seconds x 1000), distances in millimetres, speeds in metres per hour,   *)
(* coordinates in 0.001 degree.  Floating-point negation is exact, so the  *)
(* fixed-point operations round symmetrically about 0.                     *)
(***************************************************************************)
EXTENDS Integers, Sequences, FiniteSets, TLC

\* ---------------------------------------------------------------- bounds
ClockStep == 5000   \* granularity of the clock, in ms
MaxTicks == 8       \* the clock stops after this many steps
MaxWatches == 2     \* location subscriptions alive at once
MaxRetries == 1     \* single-shot location requests pending at once
MaxLen == 3         \* FnSpec: length of the position sequences
MaxCoord == 1       \* FnSpec: longitudes, in 0.001 degree
MaxPoints == 2      \* DrawSpec: length of the position sequences
Precision == 8      \* DrawSpec: significant bits of a number (a double has 53)

\* ------------------------------------------------------ program constants
INACTIVITY_LIMIT == 30000   \* now - lastActivity > 30000
CHECK_PERIOD == 5000        \* setInterval(checkActivity, 5000)
DURATION_PERIOD == 1000     \* the duration timer of startJogging
STATS_PERIOD == 1000        \* statsUpdateInterval
EARTH_RADIUS_KM == 6371  \* R = 6371000 m
PERMISSION_DENIED == 1
POSITION_UNAVAILABLE == 2
TIMEOUT == 3
POOR_DOWNLINK == 500        \* connection.downlink < 0.5 (Mb/s), in kb/s
ALERT_TIMEOUT == 5000       \* setTimeout(() => setShowNetworkAlert(false), 5000)
MIN_RANGE == 100            \* minRange = 0.0001 (degree), in 0.000001 degree

Null == 0           \* null of a ref, of startTime (ids and times are >= 1)

VARIABLES
  state,             \* useState<JoggingState>
  positions,         \* useState<Position[]>
  currentPosition,   \* useState<Position | null>
  stats,             \* useState<JoggingStats>
  lastActivity,      \* useState(Date.now())
  startTime,         \* useState<number | null>
  watchIdRef,        \* useRef: id of the watch the component remembers
  timerRef,          \* useRef: id of the activity-check interval
  durationTimerRef,  \* useRef: id of the duration interval
  statsIntervalId,   \* the interval held by the stats effect's cleanup
  watches,           \* browser: active watchPosition subscriptions
  retries,           \* browser: pending getCurrentPosition requests
  timers,            \* browser: active setInterval timers
  geolocation,       \* browser: navigator.geolocation is present
  now,               \* browser: Date.now()
  notice,            \* the alert() raised by the last handler, or "none"
  lastOp,            \* the handler that ran last
  mounted,           \* the component is mounted
  observing,         \* statsObserverRef: the IntersectionObserver observes
  connection,        \* browser: navigator.connection
  online,            \* browser: navigator.onLine
  networkStatus,     \* useState: the network status shown
  showNetworkAlert,  \* useState: the poor-network advisory is rendered
  alertTimeouts,     \* browser: due times of the pending setTimeout calls
  args,              \* FnSpec: the arguments of the call
  result             \* FnSpec: what the call returned

sessionVars == <<state, positions, currentPosition, stats, lastActivity, startTime,
                 watchIdRef, timerRef, durationTimerRef, statsIntervalId,
                 watches, retries, timers, geolocation, notice>>

netVars == <<connection, online, networkStatus, showNetworkAlert, alertTimeouts>>

fnVars == <<args, result>>

vars == <<sessionVars, now, lastOp, mounted, observing, netVars, fnVars>>

JoggingState == {"idle", "running", "paused", "stopped"}

NoPosition == [lat |-> 0, lng |-> 0, timestamp |-> 0]   \* currentPosition = null

ZeroStats == [distance |-> 0, duration |-> 0, averageSpeed |-> 0,
              maxSpeed |-> 0, calories |-> 0]

\* the coordinates a sample may carry, in 0.001 degree
Coords == {[lat |-> 0, lng |-> 0], [lat |-> 0, lng |-> 1]}

\* truthiness of `startTime ? ... : ...`: null and 0 are both falsy
Truthy(t) == t # Null

\* ------------------------------------------------------------- arithmetic
RECURSIVE IsqrtIter(_, _)
IsqrtIter(n, r) ==
  LET q == (r + n \div r) \div 2
  IN IF q >= r THEN r ELSE IsqrtIter(n, q)

\* Math.sqrt on the fixed-point grid: the integer square root
Isqrt(n) == IF n <= 0 THEN 0 ELSE IsqrtIter(n, n)

\* Math.floor in the place of Math.round
RoundDiv_Floor(num, den) == num \div den

\* Math.round: the nearest integer, halves rounded up; num / den with den > 0
RoundDiv(num, den) == (2 * num + den) \div (2 * den)

Max(a, b) == IF a >= b THEN a ELSE b

\* a / c * b for a, b >= 0 and c > 0, without the intermediate a * b
MulDiv(a, b, c) == (a \div c) * b + ((a % c) * b) \div c

\* n / d on the fixed-point grid, for any sign of n: (-n) / d = -(n / d)
Quot(n, d) == IF n >= 0 THEN n \div d ELSE 0 - ((0 - n) \div d)

\* degrees (in 0.001) to radians (in 1e-9): x * PI / 180
ToNanoRad(milliDeg) == Quot(milliDeg * 174533, 10)

\* calculateDistance taking pos2.lat for the difference of the latitudes
calculateDistance_NoDelta(pos1, pos2) ==
  LET dLat == ToNanoRad(pos2.lat)
      dLng == ToNanoRad(pos2.lng - pos1.lng)
      a == Quot(dLat, 2) * Quot(dLat, 2) + Quot(dLng, 2) * Quot(dLng, 2)
      c == 2 * Isqrt(a)
  IN (EARTH_RADIUS_KM * c) \div 1000

\* Haversine distance of two positions, in millimetres.  Coordinates are a
\* few 0.001 degree from (0, 0): there, to the precision of the grid,
\* sin x = x, cos(lat) = 1 and atan2(sqrt a, sqrt(1 - a)) = sqrt a.
calculateDistance(pos1, pos2) ==
  LET dLat == ToNanoRad(pos2.lat - pos1.lat)
      dLng == ToNanoRad(pos2.lng - pos1.lng)
      a == Quot(dLat, 2) * Quot(dLat, 2) + Quot(dLng, 2) * Quot(dLng, 2)
      c == 2 * Isqrt(a)
  IN (EARTH_RADIUS_KM * c) \div 1000

RECURSIVE TotalDistance(_)
TotalDistance(ps) ==
  IF Len(ps) < 2 THEN 0
  ELSE TotalDistance(SubSeq(ps, 1, Len(ps) - 1))
       + calculateDistance(ps[Len(ps) - 1], ps[Len(ps)])

\* speed of the segment ending at i, in metres per hour (km/h * 1000)
SegmentSpeed(ps, i) ==
  LET timeDiffMs == ps[i].timestamp - ps[i - 1].timestamp
  IN IF timeDiffMs > 0
     THEN MulDiv(calculateDistance(ps[i - 1], ps[i]), 3600, timeDiffMs)
     ELSE 0

\* the loop keeping the speed of the last segment, not the maximum
MaxSegmentSpeed_Last(ps) ==
  IF Len(ps) < 2 THEN 0 ELSE SegmentSpeed(ps, Len(ps))

RECURSIVE MaxSegmentSpeed(_)
MaxSegmentSpeed(ps) ==
  IF Len(ps) < 2 THEN 0
  ELSE Max(MaxSegmentSpeed(SubSeq(ps, 1, Len(ps) - 1)), SegmentSpeed(ps, Len(ps)))

\* updateStats whose short-sequence branch only sets the duration
updateStats_KeepPrev(newPositions, capStart, t, prev) ==
  LET duration == IF Truthy(capStart) THEN t - capStart ELSE 0
      totalDistance == TotalDistance(newPositions)
  IN IF Len(newPositions) < 2
     THEN [prev EXCEPT !.duration = duration]
     ELSE [distance |-> totalDistance,
           duration |-> duration,
           averageSpeed |-> IF duration > 0
                            THEN MulDiv(totalDistance, 3600, duration)
                            ELSE 0,
           maxSpeed |-> MaxSegmentSpeed(newPositions),
           calories |-> RoundDiv(totalDistance * 5, 100000)]

\* updateStats with distance and duration swapped in the short-sequence
\* branch
updateStats_Swapped(newPositions, capStart, t, prev) ==
  LET duration == IF Truthy(capStart) THEN t - capStart ELSE 0
  IN [prev EXCEPT !.duration = 0, !.distance = duration,
                  !.averageSpeed = 0, !.maxSpeed = 0, !.calories = 0]

\* updateStats(newPositions), in a closure that captured startTime = capStart,
\* run at time t on the previous stats prev
updateStats(newPositions, capStart, t, prev) ==
  LET duration == IF Truthy(capStart) THEN t - capStart ELSE 0
      totalDistance == TotalDistance(newPositions)
  IN IF Len(newPositions) < 2
     THEN [prev EXCEPT !.duration = duration, !.distance = 0,
                       !.averageSpeed = 0, !.maxSpeed = 0, !.calories = 0]
     ELSE [distance |-> totalDistance,
           duration |-> duration,
           averageSpeed |-> IF duration > 0
                            THEN MulDiv(totalDistance, 3600, duration)
                            ELSE 0,
           maxSpeed |-> MaxSegmentSpeed(newPositions),
           calories |-> RoundDiv(totalDistance * 5, 100000)]

\* ------------------------------------------------------------ browser ids
FreshId(used) == CHOOSE i \in 1..(Cardinality(used) + 1) : i \notin used

TimerIds(tm) == {t.id : t \in tm}

Interval(id, kind, due, capLast, capStart, capPositions) ==
  [id |-> id, kind |-> kind, due |-> due, lastActivity |-> capLast,
   startTime |-> capStart, positions |-> capPositions]

clearInterval(tm, id) == {t \in tm : t.id # id}

\* ------------------------------------------------- re-render and effects
\* the auto-pause effect without the clearInterval of its else branch and
\* cleanup when the state is not running: the activity interval outlives
\* the running state
AutoPauseEffect_KeepTimer(st, la, dRef, tm) ==
  LET cleaned == clearInterval(clearInterval(tm, timerRef), dRef)
      id == FreshId(TimerIds(cleaned) \cup {dRef, statsIntervalId})
  IN IF st = state /\ la = lastActivity
     THEN [timers |-> tm, timerRef |-> timerRef]
     ELSE IF st = "running"
          THEN [timers |-> cleaned \cup
                           {Interval(id, "activity", now + CHECK_PERIOD, la, Null, <<>>)},
                timerRef |-> id]
          ELSE [timers |-> clearInterval(tm, dRef), timerRef |-> timerRef]

\* The auto-pause effect, dependencies [state, lastActivity]: the cleanup of
\* the previous run, then the body, for the new values st and la.  tm and
\* dRef are the timers and durationTimerRef.current the handler left.
AutoPauseEffect(st, la, dRef, tm) ==
  LET cleaned == clearInterval(clearInterval(tm, timerRef), dRef)
      id == FreshId(TimerIds(cleaned) \cup {dRef, statsIntervalId})
  IN IF st = state /\ la = lastActivity
     THEN [timers |-> tm, timerRef |-> timerRef]
     ELSE IF st = "running"
          THEN [timers |-> cleaned \cup
                           {Interval(id, "activity", now + CHECK_PERIOD, la, Null, <<>>)},
                timerRef |-> id]
          ELSE [timers |-> cleaned, timerRef |-> Null]

\* the stats effect without its setInterval: it only cleans up
StatsEffect_Never(st, stt, pos, dRef, tRef, tm) ==
  LET cleaned == clearInterval(tm, statsIntervalId)
  IN IF st = state /\ stt = startTime /\ pos = positions
     THEN [timers |-> tm, statsIntervalId |-> statsIntervalId]
     ELSE [timers |-> cleaned, statsIntervalId |-> Null]

\* the stats effect without the cleanup of its interval when the state is
\* not running
StatsEffect_KeepInterval(st, stt, pos, dRef, tRef, tm) ==
  LET cleaned == clearInterval(tm, statsIntervalId)
      id == FreshId(TimerIds(cleaned) \cup {dRef, tRef})
  IN IF st = state /\ stt = startTime /\ pos = positions
     THEN [timers |-> tm, statsIntervalId |-> statsIntervalId]
     ELSE IF st = "running" /\ Truthy(stt)
          THEN [timers |-> cleaned \cup
                           {Interval(id, "stats", now + STATS_PERIOD, Null, stt, pos)},
                statsIntervalId |-> id]
          ELSE [timers |-> tm, statsIntervalId |-> statsIntervalId]

\* The stats effect, dependencies [state, startTime, positions, updateStats]
StatsEffect(st, stt, pos, dRef, tRef, tm) ==
  LET cleaned == clearInterval(tm, statsIntervalId)
      id == FreshId(TimerIds(cleaned) \cup {dRef, tRef})
  IN IF st = state /\ stt = startTime /\ pos = positions
     THEN [timers |-> tm, statsIntervalId |-> statsIntervalId]
     ELSE IF st = "running" /\ Truthy(stt)
          THEN [timers |-> cleaned \cup
                           {Interval(id, "stats", now + STATS_PERIOD, Null, stt, pos)},
                statsIntervalId |-> id]
          ELSE [timers |-> cleaned, statsIntervalId |-> Null]

\* The state a handler leaves, committed: the new render and its effects
Commit(st, la, stt, pos, dRef, tm) ==
  LET a == AutoPauseEffect(st, la, dRef, tm)
      s == StatsEffect(st, stt, pos, dRef, a.timerRef, a.timers)
  IN /\ state' = st
     /\ lastActivity' = la
     /\ startTime' = stt
     /\ positions' = pos
     /\ durationTimerRef' = dRef
     /\ timerRef' = a.timerRef
     /\ statsIntervalId' = s.statsIntervalId
     /\ timers' = s.timers

\* ------------------------------------------------------ network monitor
NoDownlink == 0 - 1   \* connection.downlink is undefined

\* navigator.connection is missing: connection?.x is undefined
NoConnection == [present |-> FALSE, effectiveType |-> "undefined", downlink |-> NoDownlink]

EffectiveTypes == {"undefined", "slow-2g", "2g", "3g", "4g"}

\* downlink estimates, in kb/s
Downlinks == {NoDownlink, 450, POOR_DOWNLINK, 10000}

\* what navigator.connection can be where the browser has it
Connections ==
  {[present |-> TRUE, effectiveType |-> e, downlink |-> d] :
     e \in EffectiveTypes, d \in Downlinks}

\* d < x in JavaScript: false when d is undefined
LessThan(d, x) == d # NoDownlink /\ d < x

\* the condition of the advisory with <= for <
IsPoor_AtMost(c) ==
  /\ c.present
  /\ \/ c.effectiveType = "slow-2g"
     \/ c.effectiveType = "2g"
     \/ (c.downlink # NoDownlink /\ c.downlink <= POOR_DOWNLINK)

\* the condition of the advisory in updateNetworkStatus
IsPoor(c) ==
  /\ c.present
  /\ \/ c.effectiveType = "slow-2g"
     \/ c.effectiveType = "2g"
     \/ LessThan(c.downlink, POOR_DOWNLINK)

\* updateNetworkStatus raising the advisory without its setTimeout
ArmTimeout_None(pending) == pending

\* setTimeout(() => setShowNetworkAlert(false), 5000)
ArmTimeout(pending) == pending \cup {now + ALERT_TIMEOUT}

\* what updateNetworkStatus leaves, for the connection c and onLine o it reads
UpdatedNetwork(c, o, shown, pending) ==
  [networkStatus |-> [online |-> o, effectiveType |-> c.effectiveType,
                      downlink |-> c.downlink],
   showNetworkAlert |-> IF IsPoor(c) THEN TRUE ELSE shown,
   alertTimeouts |-> IF IsPoor(c) THEN ArmTimeout(pending) ELSE pending]

\* ----------------------------------------------------------------- Init
\* the session after the first render, mounted
SessionInit ==
  /\ state = "idle"
  /\ positions = <<>>
  /\ currentPosition = NoPosition
  /\ stats = ZeroStats
  /\ lastActivity = ClockStep
  /\ startTime = Null
  /\ watchIdRef = Null
  /\ timerRef = Null
  /\ durationTimerRef = Null
  /\ statsIntervalId = Null
  /\ watches = {}
  /\ retries = <<>>
  /\ timers = {}
  /\ geolocation \in BOOLEAN
  /\ now = ClockStep
  /\ notice = "none"
  /\ lastOp = "mount"
  /\ mounted = TRUE
  /\ observing = TRUE

\* the network monitor after the updateNetworkStatus() of the mount effect
NetworkInit(cs, os) ==
  /\ connection \in cs
  /\ online \in os
  /\ LET u == UpdatedNetwork(connection, online, FALSE, {})
     IN /\ networkStatus = u.networkStatus
        /\ showNetworkAlert = u.showNetworkAlert
        /\ alertTimeouts = u.alertTimeouts

NoArgs == [positions |-> <<>>, startTime |-> Null, now |-> ClockStep, prev |-> ZeroStats]

NoResult == [op |-> "none", stats |-> ZeroStats, p |-> NoPosition, q |-> NoPosition,
             pq |-> 0, qp |-> 0, pp |-> 0]

Init ==
  /\ SessionInit
  /\ NetworkInit({NoConnection}, {TRUE})
  /\ args = NoArgs
  /\ result = NoResult

\* -------------------------------------------------------------- tracking
\* startTracking without the test for navigator.geolocation
startTracking_NoCheck(capState, capStart, ws, ref) ==
  LET id == FreshId({w.id : w \in ws})
  IN [watches |-> ws \cup {[id |-> id, state |-> capState, startTime |-> capStart]},
      watchIdRef |-> id,
      notice |-> "none"]

\* startTracking() of a render whose state is capState and whose updateStats
\* captured capStart: the watches and watchIdRef.current it leaves
startTracking(capState, capStart, ws, ref) ==
  IF ~geolocation
  THEN [watches |-> ws, watchIdRef |-> ref, notice |-> "unsupported"]
  ELSE LET id == FreshId({w.id : w \in ws})
       IN [watches |-> ws \cup {[id |-> id, state |-> capState, startTime |-> capStart]},
           watchIdRef |-> id,
           notice |-> "none"]

stopTracking(ws, ref) ==
  IF ref # Null
  THEN [watches |-> {w \in ws : w.id # ref}, watchIdRef |-> Null]
  ELSE [watches |-> ws, watchIdRef |-> ref]

\* --------------------------------------------------------------- buttons
\* Start (shown in idle) and Resume (shown in paused)
startJogging ==
  /\ mounted
  /\ state \in {"idle", "paused"}
  /\ LET first == Len(positions) = 0
         tr == IF first
               THEN startTracking(state, startTime, watches, watchIdRef)
               ELSE [watches |-> watches, watchIdRef |-> watchIdRef, notice |-> "none"]
         dId == FreshId(TimerIds(timers) \cup {timerRef, statsIntervalId})
         tm == timers \cup
               {Interval(dId, "duration", now + DURATION_PERIOD, Null, startTime, <<>>)}
     IN /\ Cardinality(tr.watches) <= MaxWatches
        /\ watches' = tr.watches
        /\ watchIdRef' = tr.watchIdRef
        /\ notice' = tr.notice
        /\ Commit("running", now, IF first THEN now ELSE startTime, positions, dId, tm)
  /\ lastOp' = "startJogging"
  /\ UNCHANGED <<currentPosition, stats, retries, geolocation, now>>
  /\ UNCHANGED <<mounted, observing, netVars, fnVars>>

\* Pause (shown in running)
pauseJogging ==
  /\ mounted
  /\ state = "running"
  /\ Commit("paused", lastActivity, startTime, positions, Null,
            clearInterval(timers, durationTimerRef))
  /\ notice' = "none"
  /\ lastOp' = "pauseJogging"
  /\ UNCHANGED <<currentPosition, stats, watches, watchIdRef, retries, geolocation, now>>
  /\ UNCHANGED <<mounted, observing, netVars, fnVars>>

\* Stop (shown in running and paused)
stopJogging ==
  /\ mounted
  /\ state \in {"running", "paused"}
  /\ LET tr == stopTracking(watches, watchIdRef)
     IN /\ watches' = tr.watches
        /\ watchIdRef' = tr.watchIdRef
  /\ Commit("stopped", lastActivity, startTime, positions, Null,
            clearInterval(timers, durationTimerRef))
  /\ notice' = "none"
  /\ lastOp' = "stopJogging"
  /\ UNCHANGED <<currentPosition, stats, retries, geolocation, now>>
  /\ UNCHANGED <<mounted, observing, netVars, fnVars>>

\* resetSession without its setStats
resetSession_KeepStats ==
  /\ mounted
  /\ state = "stopped"
  /\ currentPosition' = NoPosition
  /\ stats' = stats
  /\ LET tr == stopTracking(watches, watchIdRef)
     IN /\ watches' = tr.watches
        /\ watchIdRef' = tr.watchIdRef
  /\ Commit("idle", lastActivity, Null, <<>>, Null,
            clearInterval(timers, durationTimerRef))
  /\ notice' = "none"
  /\ lastOp' = "resetSession"
  /\ UNCHANGED <<retries, geolocation, now>>
  /\ UNCHANGED <<mounted, observing, netVars, fnVars>>

\* New Session (shown in stopped)
resetSession ==
  /\ mounted
  /\ state = "stopped"
  /\ currentPosition' = NoPosition
  /\ stats' = ZeroStats
  /\ LET tr == stopTracking(watches, watchIdRef)
     IN /\ watches' = tr.watches
        /\ watchIdRef' = tr.watchIdRef
  /\ Commit("idle", lastActivity, Null, <<>>, Null,
            clearInterval(timers, durationTimerRef))
  /\ notice' = "none"
  /\ lastOp' = "resetSession"
  /\ UNCHANGED <<retries, geolocation, now>>
  /\ UNCHANGED <<mounted, observing, netVars, fnVars>>

\* ------------------------------------------------- geolocation callbacks
\* the success callback recording in every state
Records_Always(w) == TRUE

\* `if (state === "running")` in the success callback of watch w: the state
\* is the one startTracking's render had
Records(w) == w.state = "running"

\* the success callback refreshing lastActivity only in the running state
watchSuccess_ActivityInRunning ==
  \E w \in watches, c \in Coords :
    LET newPos == [lat |-> c.lat, lng |-> c.lng, timestamp |-> now]
        updated == Append(positions, newPos)
        record == Records(w)
    IN /\ IF mounted
          THEN /\ currentPosition' = newPos
               /\ stats' = IF record
                           THEN updateStats(updated, w.startTime, now, stats)
                           ELSE stats
               /\ Commit(state, IF state = "running" THEN now ELSE lastActivity,
                         startTime, IF record THEN updated ELSE positions,
                         durationTimerRef, timers)
          ELSE UNCHANGED <<currentPosition, stats, state, lastActivity, startTime,
                           positions, durationTimerRef, timerRef, statsIntervalId,
                           timers>>
       /\ notice' = "none"
       /\ lastOp' = "watchSuccess"
       /\ UNCHANGED <<watches, watchIdRef, retries, geolocation, now>>
       /\ UNCHANGED <<mounted, observing, netVars, fnVars>>

\* watchPosition success callback of watch w; React drops the state updates
\* of an unmounted component
watchSuccess ==
  \E w \in watches, c \in Coords :
    LET newPos == [lat |-> c.lat, lng |-> c.lng, timestamp |-> now]
        updated == Append(positions, newPos)
        record == Records(w)
    IN /\ IF mounted
          THEN /\ currentPosition' = newPos
               /\ stats' = IF record
                           THEN updateStats(updated, w.startTime, now, stats)
                           ELSE stats
               /\ Commit(state, now, startTime, IF record THEN updated ELSE positions,
                         durationTimerRef, timers)
          ELSE UNCHANGED <<currentPosition, stats, state, lastActivity, startTime,
                           positions, durationTimerRef, timerRef, statsIntervalId,
                           timers>>
       /\ notice' = "none"
       /\ lastOp' = "watchSuccess"
       /\ UNCHANGED <<watches, watchIdRef, retries, geolocation, now>>
       /\ UNCHANGED <<mounted, observing, netVars, fnVars>>

\* the error callback retrying after every error, not only after a timeout
watchError_RetryAlways ==
  \E w \in watches, code \in {PERMISSION_DENIED, POSITION_UNAVAILABLE, TIMEOUT} :
    /\ Len(retries) < MaxRetries
    /\ retries' = Append(retries, [state |-> w.state, startTime |-> w.startTime])
    /\ notice' = "none"
    /\ lastOp' = IF code = TIMEOUT THEN "watchTimeout" ELSE "watchError"
    /\ UNCHANGED <<state, positions, currentPosition, stats, lastActivity, startTime,
                   watchIdRef, timerRef, durationTimerRef, statsIntervalId,
                   watches, timers, geolocation, now>>
    /\ UNCHANGED <<mounted, observing, netVars, fnVars>>

\* watchPosition error callback of watch w
watchError ==
  \E w \in watches, code \in {PERMISSION_DENIED, POSITION_UNAVAILABLE, TIMEOUT} :
    /\ IF code = TIMEOUT
       THEN /\ Len(retries) < MaxRetries
            /\ retries' = Append(retries, [state |-> w.state, startTime |-> w.startTime])
            /\ notice' = "none"
            /\ lastOp' = "watchTimeout"
       ELSE /\ retries' = retries
            /\ notice' = "gpsSettings"
            /\ lastOp' = "watchError"
    /\ UNCHANGED <<state, positions, currentPosition, stats, lastActivity, startTime,
                   watchIdRef, timerRef, durationTimerRef, statsIntervalId,
                   watches, timers, geolocation, now>>
    /\ UNCHANGED <<mounted, observing, netVars, fnVars>>

RemoveAt(s, i) == SubSeq(s, 1, i - 1) \o SubSeq(s, i + 1, Len(s))

\* getCurrentPosition success callback: stopTracking(); startTracking()
retrySuccess ==
  \E i \in 1..Len(retries) :
    LET r == retries[i]
        st == stopTracking(watches, watchIdRef)
        tr == startTracking(r.state, r.startTime, st.watches, st.watchIdRef)
    IN /\ Cardinality(tr.watches) <= MaxWatches
       /\ watches' = tr.watches
       /\ watchIdRef' = tr.watchIdRef
       /\ notice' = tr.notice
       /\ retries' = RemoveAt(retries, i)
       /\ lastOp' = "retrySuccess"
       /\ UNCHANGED <<state, positions, currentPosition, stats, lastActivity, startTime,
                      timerRef, durationTimerRef, statsIntervalId, timers,
                      geolocation, now>>
       /\ UNCHANGED <<mounted, observing, netVars, fnVars>>

\* getCurrentPosition error callback
retryError ==
  \E i \in 1..Len(retries) :
    /\ retries' = RemoveAt(retries, i)
    /\ notice' = "retryFailed"
    /\ lastOp' = "retryError"
    /\ UNCHANGED <<state, positions, currentPosition, stats, lastActivity, startTime,
                   watchIdRef, timerRef, durationTimerRef, statsIntervalId,
                   watches, timers, geolocation, now>>
    /\ UNCHANGED <<mounted, observing, netVars, fnVars>>

\* ---------------------------------------------------------------- timers
Period(kind) ==
  CASE kind = "activity" -> CHECK_PERIOD
    [] kind = "duration" -> DURATION_PERIOD
    [] kind = "stats" -> STATS_PERIOD

\* checkActivity with >= for >
Inactive_AtLeast(capLast) == now - capLast >= INACTIVITY_LIMIT

\* checkActivity comparing seconds with the limit in milliseconds
Inactive_Seconds(capLast) == (now - capLast) \div 1000 > INACTIVITY_LIMIT

\* checkActivity of an interval that captured lastActivity = capLast
Inactive(capLast) == now - capLast > INACTIVITY_LIMIT

\* a setInterval callback runs: checkActivity, the duration timer's callback
\* or the stats effect's callback
timerFires ==
  \E t \in timers :
    /\ now >= t.due
    /\ LET tm == (timers \ {t}) \cup {[t EXCEPT !.due = now + Period(t.kind)]}
       IN CASE t.kind = "activity" ->
                 /\ Commit(IF Inactive(t.lastActivity) THEN "paused" ELSE state,
                           lastActivity, startTime, positions, durationTimerRef, tm)
                 /\ notice' = IF Inactive(t.lastActivity) THEN "inactivity" ELSE "none"
                 /\ stats' = stats
                 /\ lastOp' = "checkActivity"
            [] t.kind = "duration" ->
                 /\ Commit(state, lastActivity, startTime, positions, durationTimerRef, tm)
                 /\ notice' = "none"
                 /\ stats' = IF Truthy(t.startTime)
                             THEN [stats EXCEPT !.duration = now - t.startTime]
                             ELSE stats
                 /\ lastOp' = "durationTick"
            [] t.kind = "stats" ->
                 /\ Commit(state, lastActivity, startTime, positions, durationTimerRef, tm)
                 /\ notice' = "none"
                 /\ stats' = updateStats(t.positions, t.startTime, now, stats)
                 /\ lastOp' = "statsTick"
    /\ UNCHANGED <<currentPosition, watches, watchIdRef, retries, geolocation, now>>
    /\ UNCHANGED <<mounted, observing, netVars, fnVars>>

\* --------------------------------------------------------------- unmount
\* The component is unmounted: the cleanups of the effects run.  The network
\* effect removes its listeners, the observer effect disconnects, the
\* auto-pause effect clears timerRef and durationTimerRef, the stats effect
\* clears its interval.  No cleanup calls clearWatch or clearTimeout.
unmount ==
  /\ mounted
  /\ mounted' = FALSE
  /\ observing' = FALSE
  /\ timers' = clearInterval(clearInterval(clearInterval(timers, timerRef),
                                          durationTimerRef), statsIntervalId)
  /\ notice' = "none"
  /\ lastOp' = "unmount"
  /\ UNCHANGED <<state, positions, currentPosition, stats, lastActivity, startTime,
                 watchIdRef, timerRef, durationTimerRef, statsIntervalId,
                 watches, retries, geolocation, now, netVars, fnVars>>

\* ------------------------------------------------------ network monitor
\* an online, offline or connection change event: the browser's values
\* change and the listener updateNetworkStatus runs
updateNetworkStatus ==
  /\ mounted
  /\ \E c \in IF connection.present THEN Connections ELSE {NoConnection},
        o \in BOOLEAN :
       LET u == UpdatedNetwork(c, o, showNetworkAlert, alertTimeouts)
       IN /\ connection' = c
          /\ online' = o
          /\ networkStatus' = u.networkStatus
          /\ showNetworkAlert' = u.showNetworkAlert
          /\ alertTimeouts' = u.alertTimeouts
  /\ lastOp' = "updateNetworkStatus"
  /\ UNCHANGED <<sessionVars, now, mounted, observing, fnVars>>

\* the callback of a due setTimeout: setShowNetworkAlert(false), dropped by
\* React when the component is unmounted
alertTimeout ==
  \E due \in alertTimeouts :
    /\ now >= due
    /\ alertTimeouts' = alertTimeouts \ {due}
    /\ showNetworkAlert' = IF mounted THEN FALSE ELSE showNetworkAlert
    /\ lastOp' = "alertTimeout"
    /\ UNCHANGED <<sessionVars, now, mounted, observing, connection, online,
                   networkStatus, fnVars>>

\* ------------------------------------------------------------------ time
Tick ==
  /\ now < MaxTicks * ClockStep
  /\ \A t \in timers : now < t.due
  /\ \A due \in alertTimeouts : now < due
  /\ now' = now + ClockStep
  /\ notice' = "none"
  /\ lastOp' = "tick"
  /\ UNCHANGED <<state, positions, currentPosition, stats, lastActivity, startTime,
                 watchIdRef, timerRef, durationTimerRef, statsIntervalId,
                 watches, retries, timers, geolocation>>
  /\ UNCHANGED <<mounted, observing, netVars, fnVars>>

Next ==
  \/ startJogging
  \/ pauseJogging
  \/ stopJogging
  \/ resetSession
  \/ watchSuccess
  \/ watchError
  \/ retrySuccess
  \/ retryError
  \/ timerFires
  \/ Tick

\* the session of a component that stays mounted
Spec == Init /\ [][Next]_vars

\* The browser keeps the clock running and runs the callback of a due timer
FairSpec == Spec /\ WF_vars(Tick) /\ WF_vars(timerFires)

\* ----------------------------- the session of a component that may unmount
LifeNext ==
  \/ Next
  \/ unmount

LifeSpec == Init /\ [][LifeNext]_vars

\* ------------------------------------------- the network monitor alone
NetInit ==
  /\ SessionInit
  /\ NetworkInit(Connections \cup {NoConnection}, BOOLEAN)
  /\ args = NoArgs
  /\ result = NoResult

NetNext ==
  \/ updateNetworkStatus
  \/ alertTimeout
  \/ unmount
  \/ Tick

NetSpec == NetInit /\ [][NetNext]_vars

\* The browser keeps the clock running and runs the callback of a due timeout
NetFairSpec == NetSpec /\ WF_vars(Tick) /\ WF_vars(alertTimeout)

\* ------------------------------------------------- the pure functions
\* positions a sequence may hold: a grid point, on one of two latitudes,
\* with one of two timestamps
SampleTimes == {ClockStep, 3 * ClockStep}

Samples ==
  {[lat |-> a, lng |-> b, timestamp |-> t] :
     a \in 0..1, b \in 0..MaxCoord, t \in SampleTimes}

RECURSIVE SeqsUpTo(_)
SeqsUpTo(n) ==
  IF n = 0 THEN {<<>>}
  ELSE SeqsUpTo(n - 1) \cup [1..n -> Samples]

\* stats of an earlier call, for the `...prev` of the short branch
SomeStats == [distance |-> 7, duration |-> 7, averageSpeed |-> 7,
              maxSpeed |-> 7, calories |-> 7]

FnInit ==
  /\ SessionInit
  /\ NetworkInit({NoConnection}, {TRUE})
  /\ args \in [positions : SeqsUpTo(MaxLen),
               startTime : {Null, ClockStep},
               now : {3 * ClockStep + 500},
               prev : {ZeroStats, SomeStats}]
  /\ result = NoResult

\* updateStats(args.positions) at time args.now, on previous stats args.prev
callUpdateStats ==
  /\ result.op = "none"
  /\ result' = [result EXCEPT
                  !.op = "updateStats",
                  !.stats = updateStats(args.positions, args.startTime, args.now,
                                        args.prev)]
  /\ UNCHANGED <<sessionVars, now, lastOp, mounted, observing, netVars, args>>

\* calculateDistance on two of the positions, both ways, and on one twice
callCalculateDistance ==
  /\ result.op = "none"
  /\ \E j \in 1..Len(args.positions) : \E i \in 1..j :
       LET p == args.positions[i]
           q == args.positions[j]
       IN result' = [result EXCEPT
                       !.op = "calculateDistance", !.p = p, !.q = q,
                       !.pq = calculateDistance(p, q),
                       !.qp = calculateDistance(q, p),
                       !.pp = calculateDistance(p, p)]
  /\ UNCHANGED <<sessionVars, now, lastOp, mounted, observing, netVars, args>>

FnNext ==
  \/ callUpdateStats
  \/ callCalculateDistance

FnSpec == FnInit /\ [][FnNext]_vars

\* ------------------------------------------------- the route renderer
\* drawRoute computes the bounding box in floating point.  A number is an
\* integer count of 0.000001 degree that has at most Precision significant
\* bits: the result of an addition or subtraction is rounded to the nearest
\* such number, ties to even.  Coordinates are even, so that halving is
\* exact, as it is in binary floating point.
Abs(n) == IF n >= 0 THEN n ELSE 0 - n

RECURSIVE BitLen(_)
BitLen(n) == IF n = 0 THEN 0 ELSE 1 + BitLen(n \div 2)

RECURSIVE Pow2(_)
Pow2(k) == IF k = 0 THEN 1 ELSE 2 * Pow2(k - 1)

\* the distance of the numbers next to n
Ulp(n) ==
  IF BitLen(Abs(n)) <= Precision THEN 1 ELSE Pow2(BitLen(Abs(n)) - Precision)

\* the exact result n of an operation, rounded to a number
Fl(n) ==
  LET u == Ulp(n)
      m == Abs(n) \div u
      r == Abs(n) % u
      up == 2 * r > u \/ (2 * r = u /\ m % 2 = 1)
      a == (IF up THEN m + 1 ELSE m) * u
  IN IF n >= 0 THEN a ELSE 0 - a

SetMin(S) == CHOOSE x \in S : \A y \in S : x <= y

SetMax(S) == CHOOSE x \in S : \A y \in S : x >= y

\* the bounds of one axis left as they are
Widen_None(lo, hi) == [min |-> lo, max |-> hi]

\* the bounds of one axis, widened about their center when they span less
\* than minRange
Widen(lo, hi) ==
  LET range == Fl(hi - lo)
      center == Fl(lo + hi) \div 2
  IN IF range < MIN_RANGE
     THEN [min |-> Fl(center - MIN_RANGE \div 2),
           max |-> Fl(center + MIN_RANGE \div 2)]
     ELSE [min |-> lo, max |-> hi]

\* allPositions: the positions, and the current position unless it is where
\* the last of them is
AllPositions(ps, cur) ==
  IF /\ cur # NoPosition
     /\ \/ Len(ps) = 0
        \/ ps[Len(ps)].lat # cur.lat
        \/ ps[Len(ps)].lng # cur.lng
  THEN Append(ps, cur)
  ELSE ps

NoAxis == [min |-> 0, max |-> 0, range |-> 0]

\* nothing drawn: the "Waiting for GPS signal..." message
NoDrawing == [op |-> "none", drawn |-> FALSE, all |-> <<>>, lat |-> NoAxis, lng |-> NoAxis]

\* what drawRoute computes for the positions ps and the current position cur:
\* the bounding box and the divisors maxLat - minLat and maxLng - minLng of
\* toCanvasCoords
drawRoute(ps, cur) ==
  LET all == AllPositions(ps, cur)
      lats == {all[i].lat : i \in 1..Len(all)}
      lngs == {all[i].lng : i \in 1..Len(all)}
      Axis(S) == LET w == Widen(SetMin(S), SetMax(S))
                 IN [min |-> w.min, max |-> w.max, range |-> Fl(w.max - w.min)]
  IN IF (Len(ps) = 0 /\ cur = NoPosition) \/ Len(all) = 0
     THEN [NoDrawing EXCEPT !.op = "drawRoute"]
     ELSE [op |-> "drawRoute", drawn |-> TRUE, all |-> all,
           lat |-> Axis(lats), lng |-> Axis(lngs)]

\* coordinates a point may have, in 0.000001 degree: as small against the
\* precision as a latitude or longitude of a double is, whose rounding
\* (3e-14 degree at 180 degrees) is far below minRange
GeoValues == {0 - 1000, 0, 60, 1000}

Points ==
  {[lat |-> a, lng |-> b, timestamp |-> ClockStep] : a \in GeoValues, b \in GeoValues}

RECURSIVE PointSeqs(_)
PointSeqs(n) ==
  IF n = 0 THEN {<<>>}
  ELSE PointSeqs(n - 1) \cup [1..n -> Points]

DrawInit ==
  /\ SessionInit
  /\ NetworkInit({NoConnection}, {TRUE})
  /\ args \in [positions : PointSeqs(MaxPoints),
               currentPosition : Points \cup {NoPosition}]
  /\ result = NoDrawing

\* drawRoute() of a render with args.positions and args.currentPosition
callDrawRoute ==
  /\ result.op = "none"
  /\ result' = drawRoute(args.positions, args.currentPosition)
  /\ UNCHANGED <<sessionVars, now, lastOp, mounted, observing, netVars, args>>

DrawNext == callDrawRoute

DrawSpec == DrawInit /\ [][DrawNext]_vars

\* ======================================================================
\* Properties
\* ======================================================================

Edges == {<<"idle", "running">>, <<"running", "paused">>, <<"paused", "running">>,
          <<"running", "stopped">>, <<"paused", "stopped">>, <<"stopped", "idle">>}

\* the handlers that may take an edge
EdgeOps(from, to) ==
  CASE to = "running" -> {"startJogging"}
    [] to = "paused" -> {"pauseJogging", "checkActivity"}
    [] to = "stopped" -> {"stopJogging"}
    [] to = "idle" -> {"resetSession"}

\* C1: the session state changes only along idle->running (start),
\* running->paused (pause or auto-pause), paused->running (resume),
\* running->stopped and paused->stopped (stop), stopped->idle (reset); no
\* button press, sample, location error, retry result or timer firing
\* changes it otherwise.
C1_OnlyListedEdges ==
  [][state' # state =>
       /\ <<state, state'>> \in Edges
       /\ lastOp' \in EdgeOps(state, state')]_vars

\* the auto-pause edge has been taken
C1_Witness == state = "paused" /\ lastOp = "checkActivity" /\ watches # {}

\* C2: every sample the location subscription delivers while the state is
\* running is appended at the end of positions, and the stats are recomputed
\* from the updated sequence.
C2_RunningSampleRecorded ==
  [][(lastOp' = "watchSuccess" /\ state = "running") =>
       /\ positions' = Append(positions, currentPosition')
       /\ stats' = updateStats(positions', startTime, now, stats)]_vars

\* C3: in every step positions is unchanged, or one sample is appended at
\* its end by a delivery while the state is running, or reset empties it;
\* a sample delivered in idle, paused or stopped is not recorded.
C3_AppendOnly ==
  [][\/ positions' = positions
     \/ /\ state = "running"
        /\ lastOp' = "watchSuccess"
        /\ positions' = Append(positions, currentPosition')
     \/ /\ lastOp' = "resetSession"
        /\ positions' = <<>>]_vars

\* a sample was delivered outside running and left positions as they were
C3_Witness ==
  /\ lastOp = "watchSuccess"
  /\ state \in {"paused", "stopped"}
  /\ currentPosition.timestamp = now
  /\ currentPosition \notin {positions[i] : i \in 1..Len(positions)}

\* C4: once a start has recorded the start time, a resume from paused
\* leaves the start time unchanged and activates no further subscription.
C4_ResumeKeepsStart ==
  [][(lastOp' = "startJogging" /\ state = "paused" /\ startTime # Null) =>
       /\ startTime' = startTime
       /\ watches' \subseteq watches]_vars

\* C5: with location supported, start from idle leaves state running, a
\* start time, lastActivity refreshed and exactly one active subscription.
C5_StartFromIdle ==
  [][(lastOp' = "startJogging" /\ state = "idle" /\ geolocation) =>
       /\ state' = "running"
       /\ startTime' # Null
       /\ lastActivity' = now
       /\ Cardinality(watches') = 1]_vars

DurationTickerActive == \E t \in timers : t.kind = "duration"

\* C6: after stop the state is stopped, no location subscription is active
\* and the duration ticker is not active.
C6_AfterStop ==
  lastOp = "stopJogging" =>
    /\ state = "stopped"
    /\ watches = {}
    /\ ~DurationTickerActive

\* C7: after reset the state is idle, positions is empty, the start time is
\* null and the stats are all 0; and so it is in every idle state.
C7_IdleIsClean ==
  /\ lastOp = "resetSession" => state = "idle"
  /\ state = "idle" =>
       /\ positions = <<>>
       /\ startTime = Null
       /\ stats = ZeroStats

\* reset has run, after a session whose position marker had been set
C7_Witness ==
  /\ lastOp = "resetSession"
  /\ state = "idle"
  /\ currentPosition = NoPosition
  /\ lastActivity > ClockStep

\* C8: the activity check changes the state only from running to paused, and
\* only when now - lastActivity exceeds 30 seconds at that check.
C8_NoEarlyAutoPause ==
  [][lastOp' = "checkActivity" =>
       /\ state' # state =>
            /\ state = "running"
            /\ state' = "paused"
            /\ now - lastActivity > INACTIVITY_LIMIT
       /\ notice' = "inactivity" => now - lastActivity > INACTIVITY_LIMIT]_vars

\* a check has run on a running session whose last activity is exactly 30 s
\* old, and left it running
C8_Witness ==
  /\ lastOp = "checkActivity"
  /\ state = "running"
  /\ now - lastActivity = (INACTIVITY_LIMIT \div ClockStep) * ClockStep
  /\ notice = "none"

\* the checks it takes until more than 30 s have passed since lastActivity
ChecksToPause == INACTIVITY_LIMIT \div ClockStep + 1

\* the values of lastActivity that leave the clock room for those checks
QuietStarts == {k * ClockStep : k \in 1..(MaxTicks - ChecksToPause)}

\* C9: a running session that no sample and no button disturbs any more is
\* forced to paused: every activity check at which the state is running and
\* more than 30 s have passed since lastActivity sets the state to paused and
\* raises the inactivity notice, and such a check eventually runs.
C9_AutoPauseFires ==
  /\ \A L \in QuietStarts :
       (state = "running" /\ lastActivity = L)
         ~> (state # "running" \/ lastActivity # L)
  /\ [][(lastOp' = "checkActivity" /\ state = "running"
          /\ now - lastActivity > INACTIVITY_LIMIT) =>
         (state' = "paused" /\ notice' = "inactivity")]_vars

\* the session was left alone and the check has paused it, with the notice
C9_Witness ==
  /\ state = "paused"
  /\ notice = "inactivity"
  /\ lastActivity \in QuietStarts
  /\ now - lastActivity > INACTIVITY_LIMIT

\* the sum of the distances of the consecutive positions from index i on
RECURSIVE PairwiseSum(_, _)
PairwiseSum(ps, i) ==
  IF i > Len(ps) THEN 0
  ELSE calculateDistance(ps[i - 1], ps[i]) + PairwiseSum(ps, i + 1)

\* k is num / den rounded to the nearest integer, halves up
IsRounded(k, num, den) ==
  /\ 2 * den * k - den <= 2 * num
  /\ 2 * num < 2 * den * k + den

\* C10: stats.distance is the sum of the distances of consecutive recorded
\* positions and stats.calories is round(0.05 x that sum); only a change of
\* positions or reset changes distance, max speed or calories.
C10_StatsMatchPositions ==
  /\ [](/\ stats.distance = PairwiseSum(positions, 2)
        /\ IsRounded(stats.calories, PairwiseSum(positions, 2) * 5, 100000))
  /\ [][(positions' = positions /\ lastOp' # "resetSession") =>
          /\ stats'.distance = stats.distance
          /\ stats'.maxSpeed = stats.maxSpeed
          /\ stats'.calories = stats.calories]_vars

\* the stats have been recomputed by the 1-second tick of a running session
C10_Witness ==
  /\ lastOp = "statsTick"
  /\ stats.duration > 0
  /\ stats.distance = PairwiseSum(positions, 2)
  /\ state = "running"

\* C11: for a position sequence of length 0 or 1, updateStats yields
\* distance, average speed, max speed and calories 0 and the duration
\* elapsed since the start time, 0 if the start time is null.
C11_ShortSequenceStats ==
  (result.op = "updateStats" /\ Len(args.positions) < 2) =>
    /\ result.stats.distance = 0
    /\ result.stats.averageSpeed = 0
    /\ result.stats.maxSpeed = 0
    /\ result.stats.calories = 0
    /\ result.stats.duration =
         IF args.startTime = Null THEN 0 ELSE args.now - args.startTime

\* updateStats has run on one position, with a start time, over stats that
\* were not 0
C11_Witness ==
  /\ result.op = "updateStats"
  /\ Len(args.positions) = 1
  /\ args.startTime # Null
  /\ args.prev = SomeStats
  /\ result.stats.duration > 0

\* C12: for a position sequence of length >= 2, the calories updateStats
\* yields are the total distance in metres x 0.05 rounded to the nearest
\* integer; 1000 m give 50.
C12_Calories ==
  /\ (result.op = "updateStats" /\ Len(args.positions) >= 2) =>
       IsRounded(result.stats.calories, PairwiseSum(args.positions, 2) * 5, 100000)
  /\ RoundDiv(1000 * 1000 * 5, 100000) = 50

\* updateStats has run on a sequence whose calories were rounded up
C12_Witness ==
  /\ result.op = "updateStats"
  /\ Len(args.positions) >= 2
  /\ result.stats.calories * 100000 > PairwiseSum(args.positions, 2) * 5
  /\ PairwiseSum(args.positions, 2) > 0

\* the segments of ps, by their end index, whose time-delta is > 0
TimedSegments(ps) == {i \in 2..Len(ps) : ps[i].timestamp > ps[i - 1].timestamp}

\* distance / time-delta x 3.6 of the segment ending at i, in metres per hour
SpeedOf(ps, i) ==
  (calculateDistance(ps[i - 1], ps[i]) * 3600)
    \div (ps[i].timestamp - ps[i - 1].timestamp)

\* C13: for a position sequence of length >= 2, the max speed is the maximum
\* of distance / time-delta x 3.6 over the segments with time-delta > 0, 0
\* if there is none; the distance of every segment counts in the total; two
\* positions at different coordinates with increasing timestamps give a
\* positive distance and a positive max speed.
C13_MaxSpeed ==
  (result.op = "updateStats" /\ Len(args.positions) >= 2) =>
    LET ps == args.positions
        speeds == {SpeedOf(ps, i) : i \in TimedSegments(ps)} \cup {0}
    IN /\ result.stats.maxSpeed \in speeds
       /\ \A v \in speeds : v <= result.stats.maxSpeed
       /\ result.stats.distance = PairwiseSum(ps, 2)
       /\ (/\ Len(ps) = 2
           /\ <<ps[1].lat, ps[1].lng>> # <<ps[2].lat, ps[2].lng>>
           /\ ps[1].timestamp < ps[2].timestamp) =>
            (result.stats.distance > 0 /\ result.stats.maxSpeed > 0)

\* updateStats has run on three positions whose first segment has a speed
\* and whose last segment goes back in time over a distance
C13_Witness ==
  /\ result.op = "updateStats"
  /\ Len(args.positions) = 3
  /\ TimedSegments(args.positions) = {2}
  /\ args.positions[3].timestamp < args.positions[2].timestamp
  /\ calculateDistance(args.positions[2], args.positions[3]) > 0
  /\ result.stats.maxSpeed > 0
  /\ result.stats.distance > calculateDistance(args.positions[1], args.positions[2])

\* C14: calculateDistance(p, q) = calculateDistance(q, p), it is >= 0, and
\* calculateDistance(p, p) = 0.
C14_DistanceSymmetric ==
  result.op = "calculateDistance" =>
    /\ result.pq = result.qp
    /\ result.pq >= 0
    /\ result.pp = 0

\* calculateDistance has run on two positions that differ in latitude and
\* in longitude, in opposite directions
C14_Witness ==
  /\ result.op = "calculateDistance"
  /\ result.p.lat > result.q.lat
  /\ result.p.lng < result.q.lng
  /\ result.pq > 0

\* C15: where location is unsupported, start raises the notice in the same
\* step and creates no subscription, and the session never is a running
\* session with a location subscription: none and no location request
\* exists in any state.
C15_UnsupportedStart ==
  /\ [][(lastOp' = "startJogging" /\ ~geolocation) =>
          /\ notice' = "unsupported"
          /\ watches' = {}
          /\ watchIdRef' = Null]_vars
  /\ [](~geolocation => (watches = {} /\ retries = <<>>))

\* start was pressed where location is unsupported
C15_Witness ==
  /\ ~geolocation
  /\ lastOp = "startJogging"
  /\ notice = "unsupported"
  /\ state = "running"
  /\ startTime = now

\* C16: a timeout error issues exactly one single-shot request and raises no
\* notice; a failed retry raises the notice and issues no further request;
\* a successful retry leaves the subscription it started as the only one
\* active.
C16_TimeoutRetry ==
  [][/\ lastOp' = "watchTimeout" =>
          (Len(retries') = Len(retries) + 1 /\ notice' = "none")
     /\ lastOp' = "retryError" =>
          (Len(retries') = Len(retries) - 1 /\ notice' = "retryFailed")
     /\ lastOp' = "retrySuccess" =>
          /\ Len(retries') = Len(retries) - 1
          /\ watchIdRef' # Null
          /\ {w.id : w \in watches'} = {watchIdRef'}]_vars

\* C17: a location error other than a timeout raises a notice and issues no
\* retry; it leaves the session state, the positions and the stats as they
\* were.
C17_OtherErrors ==
  [][lastOp' = "watchError" =>
       /\ notice' = "gpsSettings"
       /\ retries' = retries
       /\ state' = state
       /\ positions' = positions
       /\ stats' = stats]_vars

\* a subscription of a running session reported an error that is no timeout
C17_Witness ==
  /\ lastOp = "watchError"
  /\ notice = "gpsSettings"
  /\ state = "running"
  /\ stats.duration > 0
  /\ retries = <<>>

\* a connection is poor: there is connection information and the effective
\* type is slow-2g or 2g or the bandwidth estimate is below 0.5 Mb/s
PoorConnection(c) ==
  /\ c.present
  /\ \/ c.effectiveType \in {"slow-2g", "2g"}
     \/ (c.downlink # NoDownlink /\ c.downlink < POOR_DOWNLINK)

\* C18: a network status update raises the poor-network advisory, and arms
\* its timer, exactly when the connection it reads is poor; an update that
\* reads no poor connection, or no connection information, leaves the
\* advisory as it was, and no other step raises it.
C18_AdvisoryWhenPoor ==
  /\ [](lastOp = "mount" => (showNetworkAlert <=> PoorConnection(connection)))
  /\ [][lastOp' = "updateNetworkStatus" =>
          IF PoorConnection(connection')
          THEN /\ showNetworkAlert'
               /\ now + ALERT_TIMEOUT \in alertTimeouts'
          ELSE /\ showNetworkAlert' = showNetworkAlert
               /\ alertTimeouts' = alertTimeouts]_vars
  /\ [][(~showNetworkAlert /\ showNetworkAlert') =>
          lastOp' = "updateNetworkStatus"]_vars

\* an update has raised the advisory for the bandwidth estimate alone
C18_Witness ==
  /\ lastOp = "updateNetworkStatus"
  /\ connection.effectiveType = "4g"
  /\ connection.downlink # NoDownlink
  /\ connection.downlink < POOR_DOWNLINK
  /\ showNetworkAlert
  /\ now + ALERT_TIMEOUT \in alertTimeouts
  /\ now > ClockStep

\* the advisory is on the page
AdvisoryShown == mounted /\ showNetworkAlert

\* C19: an advisory that is shown is eventually dismissed, unless a later
\* poor-network update re-arms it; it is the callback of the 5-second timer
\* that dismisses it, and nothing else does.
C19_AdvisoryDismissed ==
  /\ \A k \in 1..(MaxTicks - 1) :
       (AdvisoryShown /\ now = k * ClockStep)
         ~> \/ ~AdvisoryShown
            \/ \E due \in alertTimeouts : due > k * ClockStep + ALERT_TIMEOUT
  /\ [][(lastOp' = "alertTimeout" /\ mounted) => ~showNetworkAlert']_vars
  /\ [][(showNetworkAlert /\ ~showNetworkAlert') => lastOp' = "alertTimeout"]_vars

\* the timer has dismissed the advisory while the connection is still poor
C19_Witness ==
  /\ lastOp = "alertTimeout"
  /\ mounted
  /\ ~showNetworkAlert
  /\ alertTimeouts = {}
  /\ PoorConnection(connection)

\* C20: after the component is unmounted no location subscription, no
\* interval timer and no observer of it is active.
C20_TeardownReleases ==
  ~mounted =>
    /\ watches = {}
    /\ timers = {}
    /\ ~observing

\* the one value all points have on an axis, if they have one
OnlyValue(S) == CHOOSE x \in S : TRUE

\* the latitudes and the longitudes of the points drawn
AxisValues ==
  {<<result.lat, {result.all[i].lat : i \in 1..Len(result.all)}>>,
   <<result.lng, {result.all[i].lng : i \in 1..Len(result.all)}>>}

\* C21 as claimed: for every non-empty set of points both spans of the
\* bounding box are at least the minimum range, and a point that is alone on
\* an axis lies in the middle of it.
C21_SpanAtLeastMinRange ==
  (result.op = "drawRoute" /\ result.drawn) =>
    \A av \in AxisValues :
      /\ av[1].max - av[1].min >= MIN_RANGE
      /\ Cardinality(av[2]) = 1 =>
           2 * (OnlyValue(av[2]) - av[1].min) = av[1].max - av[1].min

\* the rounding of the two bounds of an axis
Rounding(axis) == Max(Ulp(axis.min), Ulp(axis.max))

\* C21: for every non-empty set of points the divisors of the coordinate
\* mapping are positive, both spans of the bounding box fall short of the
\* minimum range by at most the rounding of the two bounds, and a point
\* that is alone on an axis lies in the middle of it up to that rounding.
C21_BoxNotDegenerate ==
  (result.op = "drawRoute" /\ result.drawn) =>
    \A av \in AxisValues :
      /\ av[1].range > 0
      /\ av[1].max - av[1].min >= MIN_RANGE - Rounding(av[1])
      /\ \A v \in av[2] : av[1].min <= v /\ v <= av[1].max
      /\ Cardinality(av[2]) = 1 =>
           Abs(2 * (OnlyValue(av[2]) - av[1].min) - (av[1].max - av[1].min))
             <= Rounding(av[1])

\* drawRoute has drawn a single point whose widened latitude span was
\* rounded below the minimum range
C21_Witness ==
  /\ result.op = "drawRoute"
  /\ result.drawn
  /\ Len(result.all) = 1
  /\ result.lat.range > 0
  /\ result.lat.range < MIN_RANGE

\* the displayed duration is not the time elapsed since the start time
DurationStale == stats.duration # now - startTime

\* C22: while the session is running with a start time, the stats tick
\* recomputes the stats, so the duration keeps advancing: whenever the
\* displayed duration of a running session is behind the time elapsed since
\* the start time (as it is after every step of the clock), the session
\* leaves running or the duration is later set to that time; and every stats
\* tick in running sets the duration to that time.
C22_DurationAdvances ==
  /\ (state = "running" /\ Truthy(startTime) /\ DurationStale
        /\ now < MaxTicks * ClockStep)
       ~> (state # "running" \/ ~DurationStale)
  /\ [][(lastOp' = "statsTick" /\ state = "running" /\ Truthy(startTime)) =>
         stats'.duration = now - startTime]_vars

\* the stats tick has just brought the duration of a running session up to
\* date for at least the second time
C22_Witness ==
  /\ lastOp = "statsTick"
  /\ state = "running"
  /\ Truthy(startTime)
  /\ stats.duration = now - startTime
  /\ stats.duration >= 2 * ClockStep

\* the callbacks of the session's periodic timers
TimerOps == {"checkActivity", "durationTick", "statsTick"}

\* C23: the periodic timers are active only while running: in idle, paused
\* and stopped there is no activity, duration or stats interval, a timer
\* callback runs only in the running state, and no step that stays within
\* paused and stopped changes the stats.
C23_TimersOnlyWhileRunning ==
  /\ [](state # "running" => timers = {})
  /\ [][lastOp' \in TimerOps => state = "running"]_vars
  /\ [][(state \in {"paused", "stopped"} /\ state' \in {"paused", "stopped"}) =>
         stats' = stats]_vars

\* time has passed over a paused session whose timers had run: the duration
\* shown is the one of the last tick, behind the clock
C23_Witness ==
  /\ state = "paused"
  /\ lastOp = "tick"
  /\ timers = {}
  /\ stats.duration > 0
  /\ stats.duration < now - startTime

\* C24: every sample a location subscription delivers, in any session
\* state, sets lastActivity to the delivery time and the current position to
\* the sample; when the state is not running it leaves the state, the start
\* time, the positions and the stats as they are.
C24_SampleAlwaysActivity ==
  [][lastOp' = "watchSuccess" =>
       /\ lastActivity' = now
       /\ \E c \in Coords :
            currentPosition' = [lat |-> c.lat, lng |-> c.lng, timestamp |-> now]
       /\ state # "running" =>
            /\ state' = state
            /\ startTime' = startTime
            /\ positions' = positions
            /\ stats' = stats]_vars

\* a sample has been delivered to a paused session, later than its pause
C24_Witness ==
  /\ lastOp = "watchSuccess"
  /\ state = "paused"
  /\ lastActivity = now
  /\ currentPosition.timestamp = now
  /\ now > startTime
  /\ stats.duration > 0

\* C25: at most one location subscription is active at any time, and
\* watchIdRef holds the id of the active one.
C25_OneSubscription ==
  /\ Cardinality(watches) <= 1
  /\ watches # {} => watchIdRef \in {w.id : w \in watches}

\* C26: whenever the session is idle or stopped no location subscription is
\* active, whatever callbacks were pending when Stop or New Session was
\* pressed.
C26_NoSubscriptionAtRest ==
  state \in {"idle", "stopped"} => watches = {}

\* C27: a dismissal never hides the advisory less than 5 seconds after the
\* most recent poor-network update: when a timeout callback hides the
\* advisory, no timeout armed by a later update is still to come.
C27_FullFiveSeconds ==
  [][(lastOp' = "alertTimeout" /\ AdvisoryShown /\ ~showNetworkAlert') =>
       \A due \in alertTimeouts : due <= now]_vars
====
